---- MODULE Spec2Model ----
(***************************************************************************)
(* Model of app/web.py: the FastAPI service that owns the module-level     *)
(* market-data client handle and the routes /, /ui, /health,               *)
(* /api/historical-candles, /api/predict and /api/stocks.                  *)
(*                                                                         *)
(* The handlers are `async def` bodies without any await, so one request   *)
(* runs to completion before the next one starts; the model keeps one      *)
(* request in flight and walks it through the handler statement by         *)
(* statement (pc).  UpstoxClient (app/app.py) and Prediction               *)
(* (core/prediction.py) are collaborators whose code is not part of        *)
(* web.py; their outcomes are nondeterministic choices over what their     *)
(* contracts allow.                                                        *)
(***************************************************************************)
EXTENDS Integers, Sequences, FiniteSets, TLC

VARIABLES
    credential,     \* provider credential found in the environment at start
    phase,          \* "boot" | "running" | "crashed"
    client,         \* module-level `client` (web.py:40/42)
    route,          \* handler the request in flight is in, or "idle"
    pc,             \* statement the handler is at
    request,        \* the StockPredictionRequest of the request in flight
    candles,        \* local `candles`
    predictor,      \* state of the local Prediction engine
    predicted_high, \* local `predicted_high`
    exc,            \* exception raised inside the handler's try block
    response,       \* HTTP response of the latest finished request
    trace,          \* calls made to collaborators by the request in flight
    fetchArgs,      \* keyword arguments of the latest client fetch
    healthSaid,     \* api_configured of the latest health response
    gateSaid        \* what the data routes' availability gate last decided

vars == <<credential, phase, client, route, pc, request, candles, predictor,
          predicted_high, exc, response, trace, fetchArgs, healthSaid, gateSaid>>

----------------------------------------------------------------------------
(* Bounds of the model *)

MaxRows == 2

MaxHigh == 2

----------------------------------------------------------------------------
(* Python values *)

None == [kind |-> "None"]

PyList(items) == [kind |-> "list", items |-> items]

\* Python truth value testing: None and empty containers are false, an
\* instance of a class that defines neither __bool__ nor __len__ is true.
Truthy(obj) ==
    CASE obj.kind = "None" -> FALSE
      [] obj.kind = "list" -> Len(obj.items) > 0
      [] OTHER -> TRUE

NoExc == [cls |-> "none", status_code |-> 0, detail |-> ""]

PyException(cls, msg) == [cls |-> cls, status_code |-> 0, detail |-> msg]

HTTPException(status_code, detail) ==
    [cls |-> "HTTPException", status_code |-> status_code, detail |-> detail]

\* Every exception class of the model derives from Exception.
IsInstance(e, cls) == e.cls = cls \/ cls = "Exception"

\* str(e): HTTPException renders "<status_code>: <detail>", a plain exception
\* renders its message.
Str(e) ==
    IF e.cls = "HTTPException"
    THEN ToString(e.status_code) \o ": " \o e.detail
    ELSE e.detail

----------------------------------------------------------------------------
(* Requests, candles and collaborators *)

Isins == {"INE002A01018", "INE397D01024"}

StartDates == {"2024-01-01"}

EndDates == {"2024-01-31", "31/01/2024"}

Intervals == {"day"}

Counts == {1, 5}

StockPredictionRequest ==
    [isin : Isins, start_date : StartDates, end_date : EndDates,
     interval : Intervals, count : Counts]

NoRequest ==
    [isin |-> "", start_date |-> "", end_date |-> "", interval |-> "", count |-> 0]

RowA == <<"2024-01-30", 100, 110, 90, 105, 1000, 0>>

RowB == <<"2024-01-31", 105, 120, 101, 118, 2000, 7>>

Rows == {RowA, RowB}

CandleLists == UNION {[1..n -> Rows] : n \in 0..MaxRows}

FetchFailures == {"timeout", "401 Unauthorized", "Invalid date range"}

PredictedHighs == (0 - MaxHigh)..MaxHigh

Credentials == {"absent", "invalid", "valid"}

\* UpstoxClient(): the handle, or the ValueError raised for a missing or
\* invalid credential.
UpstoxClient(cred) ==
    IF cred = "valid"
    THEN [raised |-> NoExc, value |-> [kind |-> "UpstoxClient", api_token |-> cred]]
    ELSE [raised |-> PyException("ValueError", "UPSTOX_API_TOKEN not found"),
          value |-> None]

\* c.get_historical_candles(...): the rows as the provider returned them,
\* possibly none, or one DataFetchFailed for any provider failure; on None the
\* attribute lookup fails before any call is made.
ClientFetchOutcomes(c) ==
    IF c = None
    THEN {[raised |-> PyException("AttributeError",
                        "'NoneType' object has no attribute 'get_historical_candles'"),
           value |-> None]}
    ELSE
    {[raised |-> NoExc, value |-> PyList(rows)] : rows \in CandleLists}
    \cup {[raised |-> PyException("DataFetchFailed", m), value |-> None] :
            m \in FetchFailures}

EngineFailure(step) ==
    CASE step = "feature_engineering" ->
            PyException("InsufficientData", "not enough rows to build features")
      [] step = "train_model" ->
            PyException("TrainingFailed", "model fit failed")
      [] OTHER ->
            PyException("TrainingFailed", "model is not fitted")

----------------------------------------------------------------------------
(* web.py *)

DataRoutes == {"candles", "predict"}

NoPredictor == [state |-> "none", df |-> None]

\* pd.DataFrame(candles, columns=headers): a table of the rows in order, or
\* the ValueError pandas raises when a row does not have one field per column.
DataFrame(c, columns) ==
    IF \A i \in 1..Len(c.items) : Len(c.items[i]) = Len(columns)
    THEN [raised |-> NoExc,
          value |-> [kind |-> "DataFrame", columns |-> columns, rows |-> c.items]]
    ELSE [raised |-> PyException("ValueError", "columns passed do not match the data"),
          value |-> None]

\* Prediction.predict_next_day(): one scalar, or a failure.
PredictOutcomes ==
    {[raised |-> NoExc, value |-> v] : v \in PredictedHighs}
    \cup {[raised |-> EngineFailure("predict_next_day"), value |-> 0]}

headers == <<"Timestamp", "Open", "High", "Low", "Close", "Volume", "Open Interest">>

NoResponse == [route |-> "none", status_code |-> 0, body |-> [detail |-> ""]]

\* FastAPI's handling of an exception that leaves a handler: an HTTPException
\* becomes a response with its status code and detail, anything else a 500.
ErrorResponse(r, e) ==
    IF e.cls = "HTTPException"
    THEN [route |-> r, status_code |-> e.status_code, body |-> [detail |-> e.detail]]
    ELSE [route |-> r, status_code |-> 500, body |-> [detail |-> "Internal Server Error"]]

OkResponse(r, body) == [route |-> r, status_code |-> 200, body |-> body]

Init ==
    /\ credential \in Credentials
    /\ phase = "boot"
    /\ client = None
    /\ route = "idle"
    /\ pc = "idle"
    /\ request = NoRequest
    /\ candles = None
    /\ predictor = NoPredictor
    /\ predicted_high = 0
    /\ exc = NoExc
    /\ response = NoResponse
    /\ trace = <<>>
    /\ fetchArgs = NoRequest
    /\ healthSaid = "unknown"
    /\ gateSaid = [r \in DataRoutes |-> "unknown"]

\* InitExceptCatches with the wrong exception class in the except clause
InitExceptCatchesKeyError(e) == IsInstance(e, "KeyError")

\* `except ValueError as e:` of the module initialisation
InitExceptCatches(e) == IsInstance(e, "ValueError")

\* try: client = UpstoxClient()  except ValueError: client = None
ModuleInit ==
    /\ phase = "boot"
    /\ LET r == UpstoxClient(credential) IN
          IF r.raised = NoExc
          THEN client' = r.value /\ phase' = "running"
          ELSE IF InitExceptCatches(r.raised)
               THEN client' = None /\ phase' = "running"
               ELSE client' = None /\ phase' = "crashed"
    /\ UNCHANGED <<credential, route, pc, request, candles, predictor,
                   predicted_high, exc, response, trace, fetchArgs,
                   healthSaid, gateSaid>>

Ready == phase = "running" /\ route = "idle"

\* A new request enters a handler: the handler's locals start afresh.
Enter(req) ==
    /\ request' = req
    /\ candles' = None
    /\ predictor' = NoPredictor
    /\ predicted_high' = 0
    /\ exc' = NoExc
    /\ trace' = <<>>

\* The request in flight ends with response resp.
Finish(resp) ==
    /\ response' = resp
    /\ route' = "idle"
    /\ pc' = "idle"

\* templates.TemplateResponse("index.html", {"request": request})
TemplateResponse(r) == OkResponse(r, [template |-> "index.html"])

\* GET /
Root ==
    /\ Ready
    /\ response' = TemplateResponse("root")
    /\ Enter(NoRequest)
    /\ UNCHANGED <<credential, phase, client, route, pc, fetchArgs, healthSaid, gateSaid>>

\* GET /ui
Ui ==
    /\ Ready
    /\ response' = TemplateResponse("ui")
    /\ Enter(NoRequest)
    /\ UNCHANGED <<credential, phase, client, route, pc, fetchArgs, healthSaid, gateSaid>>

\* HealthBody reporting the configured flag from the wrong comparison
HealthBodyInverted(c) == [status |-> "healthy", api_configured |-> (c = None)]

\* The body health() returns.
HealthBody(c) == [status |-> "healthy", api_configured |-> (c # None)]

\* GET /health
Health ==
    /\ Ready
    /\ response' = OkResponse("health", HealthBody(client))
    /\ healthSaid' = IF HealthBody(client).api_configured THEN "true" ELSE "false"
    /\ Enter(NoRequest)
    /\ UNCHANGED <<credential, phase, client, route, pc, fetchArgs, gateSaid>>

stocks ==
    << [name |-> "Reliance Industries", isin |-> "INE002A01018"],
       [name |-> "Bharti Airtel", isin |-> "INE397D01024"],
       [name |-> "TCS", isin |-> "INE467B01029"],
       [name |-> "ICICI Bank", isin |-> "INE090A01021"],
       [name |-> "State Bank of India", isin |-> "INE062A01020"],
       [name |-> "Infosys", isin |-> "INE009A01021"],
       [name |-> "Hindustan Unilever", isin |-> "INE030A01027"],
       [name |-> "ITC", isin |-> "INE154A01025"],
       [name |-> "Mahindra & Mahindra", isin |-> "INE101A01026"],
       [name |-> "Kotak Mahindra Bank", isin |-> "INE237A01028"],
       [name |-> "HCL Technologies", isin |-> "INE860A01027"],
       [name |-> "Sun Pharma", isin |-> "INE044A01036"],
       [name |-> "Axis Bank", isin |-> "INE238A01034"],
       [name |-> "UltraTech Cement", isin |-> "INE481G01011"],
       [name |-> "Titan Company", isin |-> "INE280A01028"],
       [name |-> "NTPC", isin |-> "INE733E01010"],
       [name |-> "Asian Paints", isin |-> "INE021A01026"],
       [name |-> "Tata Steel", isin |-> "INE081A01020"],
       [name |-> "Tata Consumer Products", isin |-> "INE192A01025"],
       [name |-> "Wipro", isin |-> "INE075A01022"],
       [name |-> "Adani Enterprises", isin |-> "INE423A01024"],
       [name |-> "Adani Ports", isin |-> "INE742F01042"] >>

\* GET /api/stocks
GetStockList ==
    /\ Ready
    /\ response' = OkResponse("stocks", [stocks |-> stocks])
    /\ Enter(NoRequest)
    /\ UNCHANGED <<credential, phase, client, route, pc, fetchArgs, healthSaid, gateSaid>>

\* The keyword arguments both data routes pass to client.get_historical_candles.
FetchKwargs(req) ==
    [isin |-> req.isin, start_date |-> req.start_date, end_date |-> req.end_date,
     interval |-> req.interval, count |-> req.count]

\* CandlesGate without the availability check
CandlesGateMissing(c) == FALSE

\* `if not client:` of get_historical_candles
CandlesGate(c) == ~Truthy(c)

\* HistoricalCandleResponse stamped with the start of the window
HistoricalCandleResponseStartDate(req, c) ==
    [isin |-> req.isin,
     data |-> [i \in 1..Len(c.items) |->
                 [j \in 1..Len(c.items[i]) |-> c.items[i][j]]],
     timestamp |-> req.start_date]

\* HistoricalCandleResponse(isin=..., data=candles, timestamp=...): the model
\* validates `data` as a list of lists, row by row and in order.
HistoricalCandleResponse(req, c) ==
    [isin |-> req.isin,
     data |-> [i \in 1..Len(c.items) |->
                 [j \in 1..Len(c.items[i]) |-> c.items[i][j]]],
     timestamp |-> req.end_date]

\* CandlesExceptCatches with a narrow except clause
CandlesExceptCatchesValueError(e) == IsInstance(e, "ValueError")

\* `except Exception as e:` of get_historical_candles
CandlesExceptCatches(e) == IsInstance(e, "Exception")

\* POST /api/historical-candles: entry and the availability gate
CandlesEnter ==
    /\ Ready
    /\ \E req \in StockPredictionRequest : Enter(req)
    /\ IF CandlesGate(client)
       THEN /\ Finish(ErrorResponse("candles",
                  HTTPException(503,
                    "Upstox API client not configured. Set UPSTOX_API_TOKEN in .env")))
            /\ gateSaid' = [gateSaid EXCEPT !["candles"] = "503"]
       ELSE /\ route' = "candles"
            /\ pc' = "fetch"
            /\ gateSaid' = [gateSaid EXCEPT !["candles"] = "passed"]
            /\ response' = response
    /\ UNCHANGED <<credential, phase, client, fetchArgs, healthSaid>>

\* candles = client.get_historical_candles(...)
CandlesFetch ==
    /\ route = "candles" /\ pc = "fetch"
    /\ trace' = IF client = None THEN trace ELSE Append(trace, "fetch")
    /\ fetchArgs' = IF client = None THEN fetchArgs ELSE FetchKwargs(request)
    /\ \E out \in ClientFetchOutcomes(client) :
          IF out.raised = NoExc
          THEN candles' = out.value /\ exc' = exc /\ pc' = "return"
          ELSE candles' = candles /\ exc' = out.raised /\ pc' = "except"
    /\ UNCHANGED <<credential, phase, client, route, request, predictor,
                   predicted_high, response, healthSaid, gateSaid>>

\* return HistoricalCandleResponse(...)
CandlesReturn ==
    /\ route = "candles" /\ pc = "return"
    /\ Finish(OkResponse("candles", HistoricalCandleResponse(request, candles)))
    /\ UNCHANGED <<credential, phase, client, request, candles, predictor,
                   predicted_high, exc, trace, fetchArgs, healthSaid, gateSaid>>

\* except Exception as e: raise HTTPException(400, f"Error fetching candles: {str(e)}")
CandlesExcept ==
    /\ route = "candles" /\ pc = "except"
    /\ Finish(ErrorResponse("candles",
          IF CandlesExceptCatches(exc)
          THEN HTTPException(400, "Error fetching candles: " \o Str(exc))
          ELSE exc))
    /\ UNCHANGED <<credential, phase, client, request, candles, predictor,
                   predicted_high, exc, trace, fetchArgs, healthSaid, gateSaid>>

\* PredictGate with the test inverted
PredictGateInverted(c) == Truthy(c)

\* `if not client:` of predict_stock
PredictGate(c) == ~Truthy(c)

\* NoCandles without the empty check
NoCandlesMissing(c) == FALSE

\* `if not candles:` of predict_stock
NoCandles(c) == ~Truthy(c)

\* float(predicted_high)
Float(x) == [kind |-> "float", value |-> x]

\* Confidence with a non-strict comparison
ConfidenceNonStrict(ph) == IF ph >= 0 THEN "high" ELSE "moderate"

\* "high" if predicted_high > 0 else "moderate"
Confidence(ph) == IF ph > 0 THEN "high" ELSE "moderate"

\* PredictionResponse(isin=..., predicted_high=..., confidence=...)
PredictionResponse(req, ph) ==
    [isin |-> req.isin, predicted_high |-> Float(ph), confidence |-> Confidence(ph)]

\* PredictExceptCatches letting HTTPException through
PredictExceptCatchesNotHTTP(e) == e.cls # "HTTPException"

\* PredictExceptCatches with a narrow except clause
PredictExceptCatchesValueError(e) == IsInstance(e, "ValueError")

\* `except Exception as e:` of predict_stock
PredictExceptCatches(e) == IsInstance(e, "Exception")

\* A statement of predict_stock's try block ends: the next statement, or the
\* except clause when it raised.
Step(raised, next) ==
    IF raised = NoExc
    THEN exc' = exc /\ pc' = next
    ELSE exc' = raised /\ pc' = "except"

\* POST /api/predict: entry and the availability gate
PredictEnter ==
    /\ Ready
    /\ \E req \in StockPredictionRequest : Enter(req)
    /\ IF PredictGate(client)
       THEN /\ Finish(ErrorResponse("predict",
                  HTTPException(503, "Upstox API client not configured")))
            /\ gateSaid' = [gateSaid EXCEPT !["predict"] = "503"]
       ELSE /\ route' = "predict"
            /\ pc' = "fetch"
            /\ gateSaid' = [gateSaid EXCEPT !["predict"] = "passed"]
            /\ response' = response
    /\ UNCHANGED <<credential, phase, client, fetchArgs, healthSaid>>

\* candles = client.get_historical_candles(...)
PredictFetch ==
    /\ route = "predict" /\ pc = "fetch"
    /\ trace' = IF client = None THEN trace ELSE Append(trace, "fetch")
    /\ fetchArgs' = IF client = None THEN fetchArgs ELSE FetchKwargs(request)
    /\ \E out \in ClientFetchOutcomes(client) :
          /\ candles' = IF out.raised = NoExc THEN out.value ELSE candles
          /\ Step(out.raised, "check")
    /\ UNCHANGED <<credential, phase, client, route, request, predictor,
                   predicted_high, response, healthSaid, gateSaid>>

\* if not candles: raise HTTPException(404, ...)
PredictCheck ==
    /\ route = "predict" /\ pc = "check"
    /\ Step(IF NoCandles(candles)
            THEN HTTPException(404, "No data found for the given ISIN and date range")
            ELSE NoExc,
            "construct")
    /\ UNCHANGED <<credential, phase, client, route, request, candles, predictor,
                   predicted_high, response, trace, fetchArgs, healthSaid, gateSaid>>

\* df = pd.DataFrame(candles, columns=headers); predictor = Prediction(df)
PredictConstruct ==
    /\ route = "predict" /\ pc = "construct"
    /\ LET df == DataFrame(candles, headers) IN
          /\ Step(df.raised, "feature_engineering")
          /\ IF df.raised = NoExc
             THEN /\ predictor' = [state |-> "Constructed", df |-> df.value]
                  /\ trace' = Append(trace, "Prediction")
             ELSE UNCHANGED <<predictor, trace>>
    /\ UNCHANGED <<credential, phase, client, route, request, candles,
                   predicted_high, response, fetchArgs, healthSaid, gateSaid>>

\* predictor.feature_engineering()
PredictFeature ==
    /\ route = "predict" /\ pc = "feature_engineering"
    /\ trace' = Append(trace, "feature_engineering")
    /\ \/ /\ predictor' = [predictor EXCEPT !.state = "Feature-engineered"]
          /\ Step(NoExc, "train_model")
       \/ /\ predictor' = predictor
          /\ Step(EngineFailure("feature_engineering"), "train_model")
    /\ UNCHANGED <<credential, phase, client, route, request, candles,
                   predicted_high, response, fetchArgs, healthSaid, gateSaid>>

\* predictor.train_model()
PredictTrain ==
    /\ route = "predict" /\ pc = "train_model"
    /\ trace' = Append(trace, "train_model")
    /\ \/ /\ predictor' = [predictor EXCEPT !.state = "Trained"]
          /\ Step(NoExc, "predict_next_day")
       \/ /\ predictor' = predictor
          /\ Step(EngineFailure("train_model"), "predict_next_day")
    /\ UNCHANGED <<credential, phase, client, route, request, candles,
                   predicted_high, response, fetchArgs, healthSaid, gateSaid>>

\* predicted_high = predictor.predict_next_day()
PredictNextDay ==
    /\ route = "predict" /\ pc = "predict_next_day"
    /\ trace' = Append(trace, "predict_next_day")
    /\ \E out \in PredictOutcomes :
          /\ predicted_high' = IF out.raised = NoExc THEN out.value ELSE predicted_high
          /\ predictor' = IF out.raised = NoExc
                          THEN [predictor EXCEPT !.state = "Predicted"]
                          ELSE predictor
          /\ Step(out.raised, "return")
    /\ UNCHANGED <<credential, phase, client, route, request, candles,
                   response, fetchArgs, healthSaid, gateSaid>>

\* return PredictionResponse(...)
PredictReturn ==
    /\ route = "predict" /\ pc = "return"
    /\ Finish(OkResponse("predict", PredictionResponse(request, predicted_high)))
    /\ UNCHANGED <<credential, phase, client, request, candles, predictor,
                   predicted_high, exc, trace, fetchArgs, healthSaid, gateSaid>>

\* except Exception as e: raise HTTPException(400, f"Prediction error: {str(e)}")
PredictExcept ==
    /\ route = "predict" /\ pc = "except"
    /\ Finish(ErrorResponse("predict",
          IF PredictExceptCatches(exc)
          THEN HTTPException(400, "Prediction error: " \o Str(exc))
          ELSE exc))
    /\ UNCHANGED <<credential, phase, client, request, candles, predictor,
                   predicted_high, exc, trace, fetchArgs, healthSaid, gateSaid>>

Next ==
    \/ ModuleInit \/ Root \/ Ui \/ Health \/ GetStockList
    \/ CandlesEnter \/ CandlesFetch \/ CandlesReturn \/ CandlesExcept
    \/ PredictEnter \/ PredictFetch \/ PredictCheck \/ PredictConstruct
    \/ PredictFeature \/ PredictTrain \/ PredictNextDay \/ PredictReturn
    \/ PredictExcept

Spec == Init /\ [][Next]_vars

----------------------------------------------------------------------------
(* Properties *)

\* The latest finished request was served by route r; request, candles, exc,
\* predicted_high and trace are then the ones of that request.
Done(r) == route = "idle" /\ response.route = r

Detail == response.body.detail

\* C1: with client None, both data routes answer 503 and make no call to the
\* market-data client, whatever the request.
C1_UnconfiguredShortCircuits ==
    (phase = "running" /\ client = None) =>
        /\ route = "idle"
        /\ trace = <<>>
        /\ fetchArgs = NoRequest
        /\ \A r \in DataRoutes : Done(r) => response.status_code = 503

C1_Witness ==
    /\ client = None
    /\ Done("predict")
    /\ response.status_code = 503
    /\ gateSaid["candles"] = "503"
    /\ request.end_date = "31/01/2024"

\* C2: with a configured client and zero rows from the provider, the
\* historical-candles route answers 200 with data [], the predict route
\* answers 400 (never 404) with the not-found wording inside its detail.
C2_EmptyResultByRoute ==
    (client # None /\ candles = PyList(<<>>)) =>
        /\ Done("candles") =>
              /\ response.status_code = 200
              /\ response.body.data = <<>>
        /\ Done("predict") =>
              /\ response.status_code = 400
              /\ exc = HTTPException(404, "No data found for the given ISIN and date range")
              /\ Detail = "Prediction error: 404: No data found for the given ISIN and date range"

C2_Witness ==
    /\ client # None
    /\ candles = PyList(<<>>)
    /\ Done("predict")
    /\ response.status_code = 400

\* C3: a provider failure raised by the client's fetch on either data route
\* ends in a 400 whose detail carries the failure's text.
C3_FetchFailureIs400 ==
    (client # None /\ exc.cls = "DataFetchFailed") =>
        /\ exc.detail \in FetchFailures
        /\ Done("candles") =>
              /\ response.status_code = 400
              /\ Detail = "Error fetching candles: " \o exc.detail
        /\ Done("predict") =>
              /\ response.status_code = 400
              /\ Detail = "Prediction error: " \o exc.detail

C3_Witness ==
    /\ Done("candles")
    /\ exc = PyException("DataFetchFailed", "timeout")
    /\ response.status_code = 400

\* C4: with a configured client and N rows of 7 fields from the provider, the
\* historical-candles route answers with exactly those N rows, in row and
\* field order, isin and end_date echoed, and the client was called with the
\* request's five fields unchanged.
C4_CandleRoundTrip ==
    (Done("candles") /\ client # None /\ exc = NoExc) =>
        /\ response.status_code = 200
        /\ Len(response.body.data) = Len(candles.items)
        /\ \A i \in 1..Len(candles.items) :
              /\ Len(response.body.data[i]) = 7
              /\ \A j \in 1..7 : response.body.data[i][j] = candles.items[i][j]
        /\ response.body.isin = request.isin
        /\ response.body.timestamp = request.end_date
        /\ fetchArgs = request

C4_Witness ==
    /\ Done("candles")
    /\ response.status_code = 200
    /\ candles.items = <<RowB, RowA>>
    /\ request.count = 5

\* C5: a successful predict response has confidence "high" when the predicted
\* high is above 0 and "moderate" when it is 0 or below, nothing else, and
\* echoes the request's isin.
C5_ConfidenceLabel ==
    (Done("predict") /\ response.status_code = 200) =>
        /\ response.body.predicted_high.value = predicted_high
        /\ predicted_high > 0 => response.body.confidence = "high"
        /\ predicted_high <= 0 => response.body.confidence = "moderate"
        /\ response.body.confidence \in {"high", "moderate"}
        /\ response.body.isin = request.isin

C5_Witness ==
    /\ Done("predict")
    /\ response.status_code = 200
    /\ predicted_high = 0
    /\ response.body.confidence = "moderate"

C6_HealthReport ==
    Done("health") =>
        /\ response.status_code = 200
        /\ response.body.status = "healthy"
        /\ response.body.api_configured = (credential = "valid")
        /\ trace = <<>>

\* C6: health always answers "healthy" without calling the client;
\* api_configured is false without a usable credential at startup and true
\* with one; once the module is initialised no step of any route changes the
\* client handle.
C6_HealthStable ==
    /\ [](C6_HealthReport)
    /\ [](Ready => ENABLED Health)
    /\ [][phase = "running" => client' = client]_vars

C6_Witness ==
    /\ Done("health")
    /\ response.body.api_configured
    /\ gateSaid["predict"] = "passed"
    /\ gateSaid["candles"] = "passed"

\* C7: when the client's construction fails at start the process keeps
\* running with client None, and the data routes answer 503.
C7_ConstructionFailureDegrades ==
    /\ phase # "crashed"
    /\ (phase = "running" /\ UpstoxClient(credential).raised # NoExc) =>
          /\ client = None
          /\ \A r \in DataRoutes : Done(r) => response.status_code = 503
          /\ \A r \in DataRoutes : gateSaid[r] # "passed"

C7_Witness ==
    /\ credential = "invalid"
    /\ phase = "running"
    /\ Done("candles")
    /\ response.status_code = 503

\* C8: a predict request with a configured client ends either in a 200 with a
\* complete PredictionResponse and no failure, or in a 400 whose detail is
\* "Prediction error: " followed by the failure's text; nothing in between.
C8_PredictAllOrNothing ==
    (Done("predict") /\ client # None) =>
        \/ /\ exc = NoExc
           /\ response.status_code = 200
           /\ predictor.state = "Predicted"
           /\ DOMAIN response.body = {"isin", "predicted_high", "confidence"}
        \/ /\ exc # NoExc
           /\ response.status_code = 400
           /\ predictor.state # "Predicted"
           /\ DOMAIN response.body = {"detail"}
           /\ Detail = "Prediction error: " \o Str(exc)

C8_Witness ==
    /\ Done("predict")
    /\ exc = EngineFailure("train_model")
    /\ response.status_code = 400

PredictOrder ==
    <<"fetch", "Prediction", "feature_engineering", "train_model", "predict_next_day">>

C9_TraceInOrder ==
    (route = "predict" \/ Done("predict")) =>
        /\ Len(trace) <= Len(PredictOrder)
        /\ trace = SubSeq(PredictOrder, 1, Len(trace))
        /\ client = None => trace = <<>>
        /\ (pc # "fetch" /\ client # None) => Len(trace) >= 1
        /\ Len(trace) >= 2 => (candles # None /\ Len(candles.items) > 0)

\* C9: a predict request with a configured client makes exactly one fetch,
\* then, only for a non-empty result, constructs the engine and runs
\* feature_engineering, train_model and predict_next_day in that order, each
\* at most once; after a failure no further step runs.
C9_PredictStepOrder ==
    /\ [](C9_TraceInOrder)
    /\ [][(route = "predict" /\ exc # NoExc) => (trace' = trace /\ route' = "idle")]_vars

C9_Witness ==
    /\ Done("predict")
    /\ trace = PredictOrder
    /\ response.status_code = 200

\* C10: health and the data routes' gate agree: api_configured is false
\* exactly when the data routes answer 503.
C10_HealthAgreesWithGate ==
    \A r \in DataRoutes :
        (healthSaid # "unknown" /\ gateSaid[r] # "unknown") =>
            (healthSaid = "false" <=> gateSaid[r] = "503")

C10_Witness ==
    /\ healthSaid = "true"
    /\ gateSaid["candles"] = "passed"
    /\ gateSaid["predict"] = "passed"
    /\ Done("health")
====
